---- MODULE Spec2Model ----
(***************************************************************************)
(* Pipeline status and job-tracking core of the dashboard service          *)
(* (src/database.py, the preview of src/app.py).                           *)
(*                                                                         *)
(* Callers are dashboard sessions, each running one operation at a time,   *)
(* step by step: a step is one call into the pool cache, one pool          *)
(* getconn/putconn group, one query, or one HTTP request.  Failures of the *)
(* outside world (store down, query error, HTTP failure) are chosen        *)
(* nondeterministically at the step where the code can observe them.       *)
(***************************************************************************)
EXTENDS Integers, Sequences, FiniteSets, TLC

(* ------------------------------ bounds -------------------------------- *)
\* number of concurrent dashboard sessions
NCallers == 2
\* pool size of the model (maxconn of ThreadedConnectionPool, database.py:29,
\* is 10; it is scaled down so that few callers can exhaust a pool)
MaxConn == 1
\* rows an external writer may insert into a data store
MaxRows == 1
\* job rows in the registry
MaxJobs == 3
\* distinct created_at values of the registry
MaxTime == 2
\* largest LIMIT passed to get_job_history
MaxLimit == 3
\* stages a job of the stage registries has reached
MaxStages == 2

Callers == 1..NCallers

VARIABLES
    cache,      \* st.cache_resource of get_connection_pool: store name -> entry
    created,    \* number of ThreadedConnectionPool objects constructed per store
    returned,   \* values get_connection_pool has returned per store
    used,       \* connections checked out of each pool
    rawRows,    \* rows of time_series_raw (ingestion store)
    prepRows,   \* rows of time_series_preprocessed (preprocessing store)
    seriesN,    \* distinct non-null series_id of time_series_preprocessed
    registry,   \* rows of pipeline_jobs (status store)
    op,         \* operation each caller is running
    pc,         \* position of each caller in its operation
    loc,        \* local variables of each caller
    ret,        \* pending or returned result of each caller
    reqs,       \* HTTP requests sent by the caller's current call
    prev,       \* the registry result the session got from its previous call
    dbconn      \* st.cache_resource of get_db_connection (dashboard_app.py)

vars == <<cache, created, returned, used, rawRows, prepRows, seriesN, registry,
          op, pc, loc, ret, reqs, prev, dbconn>>

stores == <<rawRows, prepRows, seriesN, registry>>
pools == <<cache, created, returned>>

(* --------------------------- pool manager ------------------------------ *)
\* keys of db_url_map
db_url_map == {"status", "ingestion", "preprocessing", "forecasting", "anomaly"}

\* entries of the resource cache: none yet, a cached None, a cached pool
Unset == [kind |-> "unset", id |-> 0]
None == [kind |-> "None", id |-> 0]
Pool(k) == [kind |-> "pool", id |-> k]

\* truth value of what get_connection_pool returned (None is falsy)
Truthy(entry) == entry.kind = "pool"

\* a mutant of CacheHit: the decorator is missing, every call runs the body
CacheHitNever(db_type) == FALSE

\* @st.cache_resource: the body runs only when the key has no entry yet
CacheHit(db_type) == cache[db_type] # Unset

\* get_connection_pool(db_type): returns the cached entry, else constructs the
\* pool (ok) or catches the failure and returns None (~ok); either is cached.
\* The lookup and the fill are one step: cache_resource computes under a lock.
get_connection_pool(db_type, ok) ==
    IF CacheHit(db_type)
    THEN /\ returned' = [returned EXCEPT ![db_type] = @ \cup {cache[db_type]}]
         /\ UNCHANGED <<cache, created>>
    ELSE /\ db_type \in db_url_map
         /\ cache' = [cache EXCEPT ![db_type] =
                         IF ok THEN Pool(created[db_type] + 1) ELSE None]
         /\ created' = [created EXCEPT ![db_type] = IF ok THEN @ + 1 ELSE @]
         /\ returned' = [returned EXCEPT ![db_type] = @ \cup {cache'[db_type]}]

\* a mutant of PoolHasRoom: the pool hands out connections without a maximum
PoolHasRoomUnbounded(db_type) == TRUE

\* ThreadedConnectionPool.getconn raises PoolError once maxconn are out
PoolHasRoom(db_type) == used[db_type] < MaxConn

\* pool.getconn(): succeeds when the pool has room and the store answers
GetconnOk(db_type, ok) == ok /\ PoolHasRoom(db_type)

(* ------------------------------ locals --------------------------------- *)
\* the local variables of a call; trace lists the getconn calls and queries
\* get_pipeline_status has attempted, in order
Loc0 ==
    [conn_raw |-> FALSE, conn_prep |-> FALSE, conn |-> FALSE,
     raw_count |-> 0, prep_count |-> 0, series_count |-> 0,
     fail |-> "none", trace |-> <<>>, limit |-> 0, series_id |-> "-",
     config_data |-> [method |-> "-"], da_conn |-> Unset,
     request |-> [series_id |-> "-", params |-> [interval |-> "-", period |-> "-"]],
     http |-> [kind |-> "-", status_code |-> 0, body |-> "-"]]

\* what a session keeps of its previous registry read: nothing (the session
\* keeps no results), nothing yet, or the operation, its limit and its rows
Off == [kind |-> "off"]
NoPrev == [kind |-> "none"]
Seen(o, limit, rows) == [kind |-> "seen", op |-> o, limit |-> limit, val |-> rows]

NoRet == [kind |-> "none"]
Value(v) == [kind |-> "value", val |-> v]
Raised(e) == [kind |-> "raised", val |-> e]

(* ---------------------------- status aggregator ------------------------ *)
\* a mutant of StatusOf: the raw count is tested before the series count
StatusOfRawFirst(raw_count, series_count) ==
    IF raw_count > 0 THEN "processing"
    ELSE IF series_count > 0 THEN "ready"
    ELSE "waiting"

\* database.py:70-78, the status
StatusOf(raw_count, series_count) ==
    IF series_count > 0 THEN "ready"
    ELSE IF raw_count > 0 THEN "processing"
    ELSE "waiting"

\* a mutant of MessageOf: the ready message formats the raw count
MessageOfRawInReady(raw_count, series_count) ==
    IF series_count > 0 THEN <<raw_count, "series ready for analysis">>
    ELSE IF raw_count > 0 THEN <<raw_count, "raw records - preprocessing pending">>
    ELSE <<"Waiting for data ingestion">>

\* database.py:70-78, the message: its text and the number formatted into it
MessageOf(raw_count, series_count) ==
    IF series_count > 0 THEN <<series_count, "series ready for analysis">>
    ELSE IF raw_count > 0 THEN <<raw_count, "raw records - preprocessing pending">>
    ELSE <<"Waiting for data ingestion">>

\* database.py:80-87, the snapshot returned (the timestamp is left out)
Snapshot(l) ==
    [status |-> StatusOf(l.raw_count, l.series_count),
     raw_count |-> l.raw_count,
     prep_count |-> l.prep_count,
     series_count |-> l.series_count,
     message |-> MessageOf(l.raw_count, l.series_count)]

\* database.py:43-44
Unavailable == [status |-> "error", message |-> <<"One or more databases unavailable">>]

\* a mutant of GpsExcept: the handler reports the counts read so far
GpsExceptPartial(l, e) == Snapshot(l)

\* database.py:89-91, the except handler
GpsExcept(l, e) == [status |-> "error", message |-> <<"Status check failed:", e>>]

\* database.py:48-88: every fallible step of get_pipeline_status is in the try
GpsInTry(site) ==
    site \in {"getconn_raw", "query_raw", "getconn_prep", "query_prep", "query_series"}

\* where get_pipeline_status returns to: its caller, or fetch_series_list
GpsReturnPc(o) == IF o = "fsl" THEN "fsl_check" ELSE "ret"

InGps(c) == op[c] \in {"gps", "fsl"}

\* a failure at `site`: the except handler and the finally block, or, outside
\* the try, the exception leaves the call
GpsFailure(c, site, e) ==
    IF GpsInTry(site)
    THEN /\ ret' = [ret EXCEPT ![c] = Value(GpsExcept(loc[c], e))]
         /\ loc' = [loc EXCEPT ![c].fail = site, ![c].trace = Append(@, site)]
         /\ pc' = [pc EXCEPT ![c] = "gps_finally"]
    ELSE /\ ret' = [ret EXCEPT ![c] = Raised(e)]
         /\ loc' = [loc EXCEPT ![c].fail = site, ![c].trace = Append(@, site)]
         /\ pc' = [pc EXCEPT ![c] = "ret"]

\* database.py:39
GpsStatusPool(c) ==
    /\ InGps(c) /\ pc[c] = "gps_status_pool"
    /\ \E ok \in BOOLEAN : get_connection_pool("status", ok)
    /\ pc' = [pc EXCEPT ![c] = "gps_ingestion_pool"]
    /\ UNCHANGED <<used, stores, op, loc, ret, reqs, prev, dbconn>>

\* database.py:40
GpsIngestionPool(c) ==
    /\ InGps(c) /\ pc[c] = "gps_ingestion_pool"
    /\ \E ok \in BOOLEAN : get_connection_pool("ingestion", ok)
    /\ pc' = [pc EXCEPT ![c] = "gps_preprocessing_pool"]
    /\ UNCHANGED <<used, stores, op, loc, ret, reqs, prev, dbconn>>

\* database.py:41-46
GpsPreprocessingPool(c) ==
    /\ InGps(c) /\ pc[c] = "gps_preprocessing_pool"
    /\ \E ok \in BOOLEAN : get_connection_pool("preprocessing", ok)
    /\ IF \A n \in {"status", "ingestion", "preprocessing"} :
              Truthy(cache'[n])
       THEN /\ pc' = [pc EXCEPT ![c] = "gps_getconn_raw"]
            /\ UNCHANGED <<loc, ret>>
       ELSE /\ ret' = [ret EXCEPT ![c] = Value(Unavailable)]
            /\ loc' = [loc EXCEPT ![c].fail = "pool"]
            /\ pc' = [pc EXCEPT ![c] = GpsReturnPc(op[c])]
    /\ UNCHANGED <<used, stores, op, reqs, prev, dbconn>>

\* database.py:50
GpsGetconnRaw(c) ==
    /\ InGps(c) /\ pc[c] = "gps_getconn_raw"
    /\ \E ok \in BOOLEAN :
         IF GetconnOk("ingestion", ok)
         THEN /\ used' = [used EXCEPT !["ingestion"] = @ + 1]
              /\ loc' = [loc EXCEPT ![c].conn_raw = TRUE,
                                    ![c].trace = Append(@, "getconn_raw")]
              /\ pc' = [pc EXCEPT ![c] = "gps_query_raw"]
              /\ UNCHANGED ret
         ELSE /\ GpsFailure(c, "getconn_raw", "getconn")
              /\ UNCHANGED used
    /\ UNCHANGED <<pools, stores, op, reqs, prev, dbconn>>

\* a mutant of GpsQueryRaw: a failed raw count is swallowed and the call goes on
GpsQueryRawSwallowing(c) ==
    /\ InGps(c) /\ pc[c] = "gps_query_raw"
    /\ \E ok \in BOOLEAN :
         /\ loc' = [loc EXCEPT ![c].raw_count = IF ok THEN rawRows ELSE 0,
                               ![c].fail = IF ok THEN @ ELSE "query_raw",
                               ![c].trace = Append(@, "query_raw")]
         /\ pc' = [pc EXCEPT ![c] = "gps_getconn_prep"]
         /\ UNCHANGED ret
    /\ UNCHANGED <<pools, used, stores, op, reqs, prev, dbconn>>

\* database.py:51-54
GpsQueryRaw(c) ==
    /\ InGps(c) /\ pc[c] = "gps_query_raw"
    /\ \E ok \in BOOLEAN :
         IF ok
         THEN /\ loc' = [loc EXCEPT ![c].raw_count = rawRows,
                                    ![c].trace = Append(@, "query_raw")]
              /\ pc' = [pc EXCEPT ![c] = "gps_getconn_prep"]
              /\ UNCHANGED ret
         ELSE GpsFailure(c, "query_raw", "query")
    /\ UNCHANGED <<pools, used, stores, op, reqs, prev, dbconn>>

\* database.py:57
GpsGetconnPrep(c) ==
    /\ InGps(c) /\ pc[c] = "gps_getconn_prep"
    /\ \E ok \in BOOLEAN :
         IF GetconnOk("preprocessing", ok)
         THEN /\ used' = [used EXCEPT !["preprocessing"] = @ + 1]
              /\ loc' = [loc EXCEPT ![c].conn_prep = TRUE,
                                    ![c].trace = Append(@, "getconn_prep")]
              /\ pc' = [pc EXCEPT ![c] = "gps_query_prep"]
              /\ UNCHANGED ret
         ELSE /\ GpsFailure(c, "getconn_prep", "getconn")
              /\ UNCHANGED used
    /\ UNCHANGED <<pools, stores, op, reqs, prev, dbconn>>

\* database.py:58-60
GpsQueryPrep(c) ==
    /\ InGps(c) /\ pc[c] = "gps_query_prep"
    /\ \E ok \in BOOLEAN :
         IF ok
         THEN /\ loc' = [loc EXCEPT ![c].prep_count = prepRows,
                                    ![c].trace = Append(@, "query_prep")]
              /\ pc' = [pc EXCEPT ![c] = "gps_query_series"]
              /\ UNCHANGED ret
         ELSE GpsFailure(c, "query_prep", "query")
    /\ UNCHANGED <<pools, used, stores, op, reqs, prev, dbconn>>

\* database.py:62-87
GpsQuerySeries(c) ==
    /\ InGps(c) /\ pc[c] = "gps_query_series"
    /\ \E ok \in BOOLEAN :
         IF ok
         THEN /\ loc' = [loc EXCEPT ![c].series_count = seriesN,
                                    ![c].trace = Append(@, "query_series")]
              /\ ret' = [ret EXCEPT ![c] = Value(Snapshot(loc'[c]))]
              /\ pc' = [pc EXCEPT ![c] = "gps_finally"]
         ELSE GpsFailure(c, "query_series", "query")
    /\ UNCHANGED <<pools, used, stores, op, reqs, prev, dbconn>>

\* a mutant of GpsRelease: the finally block returns conn_raw only
GpsReleaseRawOnly(u, l) ==
    [u EXCEPT !["ingestion"] = IF l.conn_raw THEN @ - 1 ELSE @]

\* database.py:93-97: the pools' checked-out counts after the finally block
GpsRelease(u, l) ==
    [u EXCEPT !["ingestion"] = IF l.conn_raw THEN @ - 1 ELSE @,
              !["preprocessing"] = IF l.conn_prep THEN @ - 1 ELSE @]

\* database.py:93-97
GpsFinally(c) ==
    /\ InGps(c) /\ pc[c] = "gps_finally"
    /\ used' = GpsRelease(used, loc[c])
    /\ loc' = [loc EXCEPT ![c].conn_raw = FALSE, ![c].conn_prep = FALSE]
    /\ pc' = [pc EXCEPT ![c] = GpsReturnPc(op[c])]
    /\ UNCHANGED <<pools, stores, op, ret, reqs, prev, dbconn>>

(* ------------------------------ callers -------------------------------- *)
\* render_pipeline_status / render_metrics_overview call get_pipeline_status
CallGps(c) ==
    /\ pc[c] = "idle"
    /\ op' = [op EXCEPT ![c] = "gps"]
    /\ pc' = [pc EXCEPT ![c] = "gps_status_pool"]
    /\ UNCHANGED <<pools, used, stores, loc, ret, reqs, prev, dbconn>>

\* app.py:238, 300: history_df / active_df of the run just rendered, kept by
\* a session that compares it with its next read; a failed read keeps nothing
Kept(p, o, l, r) ==
    IF p.kind # "off" /\ o \in {"hist", "active"} /\ r.kind = "value" /\ l.fail = "none"
    THEN Seen(o, l.limit, r.val)
    ELSE p

\* the call is over: the caller has its result and drops the frame
Return(c) ==
    /\ pc[c] = "ret"
    /\ op' = [op EXCEPT ![c] = "none"]
    /\ pc' = [pc EXCEPT ![c] = "idle"]
    /\ loc' = [loc EXCEPT ![c] = Loc0]
    /\ ret' = [ret EXCEPT ![c] = NoRet]
    /\ reqs' = [reqs EXCEPT ![c] = 0]
    /\ prev' = [prev EXCEPT ![c] = Kept(prev[c], op[c], loc[c], ret[c])]
    /\ UNCHANGED <<pools, used, stores, dbconn>>

(* ----------------------- single-store read operations ------------------ *)
\* job statuses the registry rows carry
JobStatuses == {"running", "completed"}

\* statuses a row of a job's stage carries (the keys of status_emoji but
\* 'partial', which no stage has)
StageStatuses == {"running", "completed", "failed"}

\* the pipeline's stages in their fixed sequence
Stages == <<"ingestion", "preprocessing", "forecasting", "anomaly">>

\* a column that is NULL; a NULL timestamp is negative
NULL == "NULL"
IsNull(t) == t < 0

\* rows of pipeline_jobs: the columns the queries select, order and filter by
Row(j, sg, st, t, u) ==
    [job_id |-> j, stage |-> sg, status |-> st, created_at |-> t, updated_at |-> u]

\* the registries of the model: k rows of k jobs, k <= MaxJobs, any timestamps
\* and statuses
Registries ==
    UNION {{{Row(j, Stages[1], f[j][2], f[j][1], f[j][1]) : j \in 1..k} :
                f \in [1..k -> (1..MaxTime) \X JobStatuses]} : k \in 0..MaxJobs}

\* registries of one job with a row per stage it has reached (app.py:305-307
\* groups the rows of a job_id as its stages), k <= MaxStages stages of the
\* sequence; a job that has reached no stage has one row with no stage
StageRegistries ==
    {{Row(1, NULL, st, t, t)} : st \in StageStatuses, t \in 1..MaxTime}
    \cup UNION {{{Row(1, Stages[i], f[i][2], f[i][1], f[i][1]) : i \in 1..k} :
                    f \in [1..k -> (1..MaxTime) \X StageStatuses]} : k \in 1..MaxStages}

\* registries of one job row whose updated_at is NULL or not before created_at
TimedRegistries ==
    {{Row(1, Stages[1], p[1], p[2], p[3])} :
        p \in {q \in JobStatuses \X (1..MaxTime) \X ({-1} \cup (1..MaxTime)) :
                  IsNull(q[3]) \/ q[3] >= q[2]}}

Min(a, b) == IF a < b THEN a ELSE b

\* every order in which the rows can be listed
Listings(rows) ==
    {f \in [1..Cardinality(rows) -> rows] : \A i, j \in DOMAIN f : i # j => f[i] # f[j]}

\* a mutant of OrderByCreatedAtDesc: ORDER BY created_at (ascending)
OrderByCreatedAtAsc(rows) ==
    {f \in Listings(rows) : \A i, j \in DOMAIN f : i < j => f[i].created_at <= f[j].created_at}

\* ORDER BY created_at DESC: rows of equal created_at come in any order
OrderByCreatedAtDesc(rows) ==
    {f \in Listings(rows) : \A i, j \in DOMAIN f : i < j => f[i].created_at >= f[j].created_at}

\* LIMIT n
Limit(s, n) == SubSeq(s, 1, Min(n, Len(s)))

\* a selected value that may be NULL
SqlNull == [null |-> TRUE, val |-> 0]
SqlInt(v) == [null |-> FALSE, val |-> v]

\* a mutant of duration_seconds: created_at - updated_at
duration_seconds_reversed(r) ==
    IF IsNull(r.updated_at) THEN SqlNull ELSE SqlInt(r.created_at - r.updated_at)

\* database.py:146: EXTRACT(EPOCH FROM (updated_at - created_at)), NULL when
\* updated_at is NULL
duration_seconds(r) ==
    IF IsNull(r.updated_at) THEN SqlNull ELSE SqlInt(r.updated_at - r.created_at)

\* database.py:139-147: the select list of the history query
HistoryEntry(r) ==
    [job_id |-> r.job_id, stage |-> r.stage, status |-> r.status,
     created_at |-> r.created_at, updated_at |-> r.updated_at,
     duration_seconds |-> duration_seconds(r)]

\* the columns of pipeline_jobs in a result entry
RowOf(e) == Row(e.job_id, e.stage, e.status, e.created_at, e.updated_at)

\* app.py:244-246: the duration shown, minutes and seconds or "N/A"
DurationDisplay(x) ==
    IF ~x.null /\ x.val > 0
    THEN [na |-> FALSE, m |-> x.val \div 60, s |-> x.val % 60]
    ELSE [na |-> TRUE, m |-> 0, s |-> 0]

\* database.py:138-152: what the history query may return
HistoryResults(limit) ==
    {Limit([i \in DOMAIN s |-> HistoryEntry(s[i])], limit) :
        s \in OrderByCreatedAtDesc(registry)}

\* a mutant of ActiveResults: WHERE status <> 'completed'
ActiveResultsNotCompleted == OrderByCreatedAtDesc({r \in registry : r.status # "completed"})

\* database.py:170-181: what the active-jobs query may return
ActiveResults == OrderByCreatedAtDesc({r \in registry : r.status = "running"})

\* database.py:114-121: the distinct series ids, in order
SeriesList == [i \in 1..seriesN |-> i]

\* the store each read operation queries
StoreOf(o) == IF o \in {"hist", "active"} THEN "status" ELSE "preprocessing"

\* what the operation's query may return
QueryResults(o, l) ==
    IF o = "hist" THEN HistoryResults(l.limit)
    ELSE IF o = "active" THEN ActiveResults
    ELSE IF o = "fsl" THEN {SeriesList}
    ELSE {<<"preview">>}

\* pd.DataFrame(), [] : the empty result
Empty == <<>>

\* a mutant of ReadInTry: conn = pool.getconn() is placed before the try
ReadInTryLate(site) == site # "getconn"

\* database.py:112-127, 136-159, 168-188, app.py:417-438: getconn and the query
\* are inside the try
ReadInTry(site) == site \in {"getconn", "query"}

InRead(c) == op[c] \in {"fsl", "hist", "active", "preview"}

\* a mutant of SeriesCountOf: status.get("series_count", 1)
SeriesCountOfDefaultOne(status) ==
    IF "series_count" \in DOMAIN status THEN status.series_count ELSE 1

\* database.py:104-105: status.get("series_count", 0)
SeriesCountOf(status) ==
    IF "series_count" \in DOMAIN status THEN status.series_count ELSE 0

\* database.py:102-105
FslCheck(c) ==
    /\ op[c] = "fsl" /\ pc[c] = "fsl_check"
    /\ IF ret[c].kind = "value" /\ SeriesCountOf(ret[c].val) = 0
       THEN /\ ret' = [ret EXCEPT ![c] = Value(Empty)]
            /\ pc' = [pc EXCEPT ![c] = "ret"]
       ELSE /\ ret' = [ret EXCEPT ![c] = NoRet]
            /\ pc' = [pc EXCEPT ![c] = "r_pool"]
    /\ loc' = [loc EXCEPT ![c].fail = "none"]
    /\ UNCHANGED <<pools, used, stores, op, reqs, prev, dbconn>>

\* database.py:107-109, 131-133, 163-165, app.py:414-415
ReadPool(c) ==
    /\ InRead(c) /\ pc[c] = "r_pool"
    /\ \E ok \in BOOLEAN : get_connection_pool(StoreOf(op[c]), ok)
    /\ IF Truthy(cache'[StoreOf(op[c])])
       THEN /\ pc' = [pc EXCEPT ![c] = "r_getconn"]
            /\ UNCHANGED <<loc, ret>>
       ELSE /\ ret' = [ret EXCEPT ![c] = Value(Empty)]
            /\ loc' = [loc EXCEPT ![c].fail = "pool"]
            /\ pc' = [pc EXCEPT ![c] = "ret"]
    /\ UNCHANGED <<used, stores, op, reqs, prev, dbconn>>

\* a failure at `site`: the except handler (empty result) and the finally
\* block, or, outside the try, the exception leaves the call
ReadFailure(c, site) ==
    IF ReadInTry(site)
    THEN /\ ret' = [ret EXCEPT ![c] = Value(Empty)]
         /\ loc' = [loc EXCEPT ![c].fail = site]
         /\ pc' = [pc EXCEPT ![c] = "r_finally"]
    ELSE /\ ret' = [ret EXCEPT ![c] = Raised(site)]
         /\ loc' = [loc EXCEPT ![c].fail = site]
         /\ pc' = [pc EXCEPT ![c] = "ret"]

\* database.py:113, 137, 169, app.py:418
ReadGetconn(c) ==
    /\ InRead(c) /\ pc[c] = "r_getconn"
    /\ \E ok \in BOOLEAN :
         IF GetconnOk(StoreOf(op[c]), ok)
         THEN /\ used' = [used EXCEPT ![StoreOf(op[c])] = @ + 1]
              /\ loc' = [loc EXCEPT ![c].conn = TRUE]
              /\ pc' = [pc EXCEPT ![c] = "r_query"]
              /\ UNCHANGED ret
         ELSE /\ ReadFailure(c, "getconn")
              /\ UNCHANGED used
    /\ UNCHANGED <<pools, stores, op, reqs, prev, dbconn>>

\* a mutant of ReadQuery: the registry queries are DELETE ... RETURNING
ReadQueryDeleting(c) ==
    /\ InRead(c) /\ pc[c] = "r_query"
    /\ \E ok \in BOOLEAN :
         IF ok
         THEN /\ \E rows \in QueryResults(op[c], loc[c]) :
                    ret' = [ret EXCEPT ![c] = Value(rows)]
              /\ pc' = [pc EXCEPT ![c] = "r_finally"]
              /\ registry' = IF StoreOf(op[c]) = "status" THEN {} ELSE registry
              /\ UNCHANGED loc
         ELSE ReadFailure(c, "query") /\ UNCHANGED registry
    /\ UNCHANGED <<pools, used, rawRows, prepRows, seriesN, op, reqs, prev, dbconn>>

\* database.py:114-121, 138-153, 170-182, app.py:419-433
ReadQuery(c) ==
    /\ InRead(c) /\ pc[c] = "r_query"
    /\ \E ok \in BOOLEAN :
         IF ok
         THEN /\ \E rows \in QueryResults(op[c], loc[c]) :
                    ret' = [ret EXCEPT ![c] = Value(rows)]
              /\ pc' = [pc EXCEPT ![c] = "r_finally"]
              /\ UNCHANGED loc
         ELSE ReadFailure(c, "query")
    /\ UNCHANGED <<pools, used, stores, op, reqs, prev, dbconn>>

\* database.py:125-127, 157-159, 186-188, app.py:436-438
ReadRelease(u, name, l) == [u EXCEPT ![name] = IF l.conn THEN @ - 1 ELSE @]

\* the finally block of a read operation
ReadFinally(c) ==
    /\ InRead(c) /\ pc[c] = "r_finally"
    /\ used' = ReadRelease(used, StoreOf(op[c]), loc[c])
    /\ loc' = [loc EXCEPT ![c].conn = FALSE]
    /\ pc' = [pc EXCEPT ![c] = "ret"]
    /\ UNCHANGED <<pools, stores, op, ret, reqs, prev, dbconn>>

\* sidebar.py:34: render_sidebar calls fetch_series_list
CallFsl(c) ==
    /\ pc[c] = "idle"
    /\ op' = [op EXCEPT ![c] = "fsl"]
    /\ pc' = [pc EXCEPT ![c] = "gps_status_pool"]
    /\ UNCHANGED <<pools, used, stores, loc, ret, reqs, prev, dbconn>>

\* app.py:238: get_job_history(limit=limit)
CallHist(c, limit) ==
    /\ pc[c] = "idle"
    /\ loc' = [loc EXCEPT ![c].limit = limit]
    /\ op' = [op EXCEPT ![c] = "hist"]
    /\ pc' = [pc EXCEPT ![c] = "r_pool"]
    /\ UNCHANGED <<pools, used, stores, ret, reqs, prev, dbconn>>

\* app.py:300: get_active_jobs()
CallActive(c) ==
    /\ pc[c] = "idle"
    /\ op' = [op EXCEPT ![c] = "active"]
    /\ pc' = [pc EXCEPT ![c] = "r_pool"]
    /\ UNCHANGED <<pools, used, stores, loc, ret, reqs, prev, dbconn>>

\* app.py:410-415: the analytics preview of the selected series
CallPreview(c) ==
    /\ pc[c] = "idle"
    /\ op' = [op EXCEPT ![c] = "preview"]
    /\ pc' = [pc EXCEPT ![c] = "r_pool"]
    /\ UNCHANGED <<pools, used, stores, loc, ret, reqs, prev, dbconn>>

(* ------------------------- pipeline trigger client --------------------- *)
\* status codes the ingestion service may answer with, after the HTTP client
\* has followed any redirect
StatusCodes == {200, 202, 404, 500}

\* what the response body may hold
Bodies == {"not_json", "json_array", "json_object", "json_object_with_job_id"}

\* outcomes of requests.get: no connection, no answer within the timeout,
\* or a response
HttpOutcomes ==
    {[kind |-> k, status_code |-> 0, body |-> "-"] : k \in {"ConnectionError", "Timeout"}}
    \cup {[kind |-> "response", status_code |-> s, body |-> b] :
              s \in StatusCodes, b \in Bodies}

\* series identifiers a user may type
SeriesIds == {"AAPL", "TSLA"}

\* app.py:84-87: preprocessing methods the form offers
Methods == {"auto", "differencing"}

\* database.py:196-205: the GET request, its path holding the series id and its
\* query parameters; config_data is not read
RequestOf(series_id, config_data) ==
    [series_id |-> series_id, params |-> [interval |-> "5m", period |-> "3mo"]]

\* a mutant of raise_for_status: only server errors raise
raise_for_status_5xx(status_code) == status_code >= 500 /\ status_code < 600

\* response.raise_for_status() raises HTTPError on a 4xx or 5xx status
raise_for_status(status_code) == status_code >= 400 /\ status_code < 600

\* response.json() raises when the body is no JSON document
json_raises(body) == body = "not_json"

\* result.get("job_id"): raises on a JSON value that is no object, and is None
\* on an object without the key
get_raises(body) == body = "json_array"
get_job_id(body) == IF body = "json_object_with_job_id" THEN "job-1" ELSE "None"

\* whether lines 201-208 raise on this outcome
TriggerRaises(out) ==
    \/ out.kind # "response"
    \/ raise_for_status(out.status_code)
    \/ json_raises(out.body)
    \/ get_raises(out.body)

\* database.py:209-213 and 214-219: the dictionary returned
TriggerResult(series_id, out) ==
    IF TriggerRaises(out)
    THEN [success |-> FALSE,
          message |-> <<"Failed to trigger pipeline:", out.kind, out.status_code>>]
    ELSE [success |-> TRUE,
          job_id |-> get_job_id(out.body),
          message |-> <<"Pipeline started for", series_id>>]

\* a mutant of TriggerAfter: a failed request is sent again
TriggerAfterRetry(out) == IF TriggerRaises(out) THEN "tp_request" ELSE "ret"

\* database.py:209-219: both branches return, nothing loops back to the request
TriggerAfter(out) == "ret"

\* app.py:92-97: the form calls trigger_pipeline(series_id, config_data)
CallTrigger(c) ==
    /\ pc[c] = "idle"
    /\ \E s \in SeriesIds, m \in Methods :
         loc' = [loc EXCEPT ![c].series_id = s, ![c].config_data = [method |-> m]]
    /\ op' = [op EXCEPT ![c] = "trigger"]
    /\ pc' = [pc EXCEPT ![c] = "tp_request"]
    /\ UNCHANGED <<pools, used, stores, ret, reqs, prev, dbconn>>

\* database.py:194-219: the request, its outcome, and the result built from it
TriggerRequest(c) ==
    /\ op[c] = "trigger" /\ pc[c] = "tp_request"
    /\ \E out \in HttpOutcomes :
         /\ reqs' = [reqs EXCEPT ![c] = @ + 1]
         /\ loc' = [loc EXCEPT ![c].fail = IF TriggerRaises(out) THEN out.kind ELSE "none",
                               ![c].request = RequestOf(loc[c].series_id, loc[c].config_data),
                               ![c].http = out]
         /\ ret' = [ret EXCEPT ![c] = Value(TriggerResult(loc[c].series_id, out))]
         /\ pc' = [pc EXCEPT ![c] = TriggerAfter(out)]
    /\ UNCHANGED <<pools, used, stores, op, prev, dbconn>>

(* ---------------------- pipeline.py: the sidebar triggers --------------- *)
\* trigger_data_ingestion and trigger_preprocessing
PipelineOps == {"trigger_data_ingestion", "trigger_preprocessing"}

\* pipeline.py:1-4: the module imports requests, streamlit, config and Dict;
\* no name pd is bound in it
pd_defined == FALSE

\* pipeline.py:10-15, 39-43: the payload calls pd.Timestamp.now(), before the
\* try; with pd unbound the call raises NameError
PayloadRaises == ~pd_defined

\* pipeline.py:25-35, 51-57: True on a 200 or 202 response, False on any other
\* response and on a request exception
PipelineResult(out) == out.kind = "response" /\ out.status_code \in {200, 202}

\* sidebar.py:20-21, 39-40: a button calls the trigger
CallPipeline(c, o) ==
    /\ pc[c] = "idle" /\ o \in PipelineOps
    /\ \E s \in SeriesIds : loc' = [loc EXCEPT ![c].series_id = s]
    /\ op' = [op EXCEPT ![c] = o]
    /\ pc' = [pc EXCEPT ![c] = "pt_payload"]
    /\ UNCHANGED <<pools, used, stores, ret, reqs, prev, dbconn>>

\* pipeline.py:6-35, 37-57: the payload, the POST request and the result
PipelineRun(c) ==
    /\ op[c] \in PipelineOps /\ pc[c] = "pt_payload"
    /\ IF PayloadRaises
       THEN /\ ret' = [ret EXCEPT ![c] = Raised("NameError")]
            /\ loc' = [loc EXCEPT ![c].fail = "payload"]
            /\ UNCHANGED reqs
       ELSE \E out \in HttpOutcomes :
              /\ reqs' = [reqs EXCEPT ![c] = @ + 1]
              /\ loc' = [loc EXCEPT ![c].http = out,
                                    ![c].fail = IF out.kind = "response" THEN "none"
                                                ELSE out.kind]
              /\ ret' = [ret EXCEPT ![c] = Value(PipelineResult(out))]
    /\ pc' = [pc EXCEPT ![c] = "ret"]
    /\ UNCHANGED <<pools, used, stores, op, prev, dbconn>>

(* ------------------- dashboard_app.py: the cached connection ----------- *)
\* the connection psycopg2.connect returned
Conn(k) == [kind |-> "conn", id |-> k]

\* dashboard_app.py:73-86: get_db_connection under @st.cache_resource: the
\* body runs once, and the connection, or None on a failure, is cached
get_db_connection(ok) ==
    IF dbconn # Unset THEN dbconn ELSE IF ok THEN Conn(1) ELSE None

\* the cached data functions of dashboard_app.py
DaOps == {"da_series", "da_data"}

\* dashboard_app.py:300, 350: main calls fetch_series_list and
\* fetch_time_series_data; @st.cache_data computes one value of a key at a
\* time, so a caller enters a function no other caller is computing
CallDa(c, o) ==
    /\ pc[c] = "idle" /\ o \in DaOps
    /\ \A d \in Callers : op[d] # o
    /\ op' = [op EXCEPT ![c] = o]
    /\ pc' = [pc EXCEPT ![c] = "da_conn"]
    /\ UNCHANGED <<pools, used, stores, loc, ret, reqs, prev, dbconn>>

\* dashboard_app.py:91-93, 100-102: conn = get_db_connection(); if not conn
DaGetConnection(c) ==
    /\ op[c] \in DaOps /\ pc[c] = "da_conn"
    /\ \E ok \in BOOLEAN :
         /\ dbconn' = get_db_connection(ok)
         /\ loc' = [loc EXCEPT ![c].da_conn = dbconn']
         /\ IF dbconn'.kind = "conn"
            THEN /\ pc' = [pc EXCEPT ![c] = "da_query"]
                 /\ UNCHANGED ret
            ELSE /\ ret' = [ret EXCEPT ![c] = Value(Empty)]
                 /\ pc' = [pc EXCEPT ![c] = "ret"]
    /\ UNCHANGED <<pools, used, stores, op, reqs, prev>>

\* dashboard_app.py:95, 111: pd.read_sql(query, conn) starts the query on conn
DaExecute(c) ==
    /\ op[c] \in DaOps /\ pc[c] = "da_query"
    /\ pc' = [pc EXCEPT ![c] = "da_running"]
    /\ UNCHANGED <<pools, used, stores, op, loc, ret, reqs, prev, dbconn>>

\* dashboard_app.py:95-96, 111-113: the query ends with its rows, or read_sql
\* raises, outside any try
DaFetch(c) ==
    /\ op[c] \in DaOps /\ pc[c] = "da_running"
    /\ \E ok \in BOOLEAN :
         /\ ret' = [ret EXCEPT ![c] = IF ok THEN Value(<<op[c]>>) ELSE Raised("query")]
         /\ loc' = [loc EXCEPT ![c].fail = IF ok THEN "none" ELSE "query"]
    /\ pc' = [pc EXCEPT ![c] = "ret"]
    /\ UNCHANGED <<pools, used, stores, op, reqs, prev, dbconn>>

(* --------------------------- external writers -------------------------- *)
\* the ingestion service inserts a raw row
WriterIngest ==
    /\ rawRows < MaxRows
    /\ rawRows' = rawRows + 1
    /\ UNCHANGED <<pools, used, prepRows, seriesN, registry, op, pc, loc, ret, reqs, prev, dbconn>>

\* the preprocessing service inserts a row, of a new series or not
WriterPreprocess ==
    /\ prepRows < MaxRows
    /\ prepRows' = prepRows + 1
    /\ \E new \in BOOLEAN : seriesN' = IF new THEN seriesN + 1 ELSE seriesN
    /\ UNCHANGED <<pools, used, rawRows, registry, op, pc, loc, ret, reqs, prev, dbconn>>

(* --------------------------- specifications ---------------------------- *)
InitPools ==
    /\ cache = [n \in db_url_map |-> Unset]
    /\ created = [n \in db_url_map |-> 0]
    /\ returned = [n \in db_url_map |-> {}]
    /\ used = [n \in db_url_map |-> 0]
    /\ dbconn = Unset

InitCallers(active, keeping) ==
    /\ op = [c \in Callers |-> "none"]
    /\ pc = [c \in Callers |-> IF c \in active THEN "idle" ELSE "off"]
    /\ loc = [c \in Callers |-> Loc0]
    /\ ret = [c \in Callers |-> NoRet]
    /\ reqs = [c \in Callers |-> 0]
    /\ prev = [c \in Callers |-> IF c \in keeping THEN NoPrev ELSE Off]

\* one session, the data stores filled by their writers
Init ==
    /\ InitPools
    /\ InitCallers({1}, {})
    /\ rawRows = 0 /\ prepRows = 0 /\ seriesN = 0
    /\ registry = {}

GpsStep(c) ==
    \/ GpsStatusPool(c)
    \/ GpsIngestionPool(c)
    \/ GpsPreprocessingPool(c)
    \/ GpsGetconnRaw(c)
    \/ GpsQueryRaw(c)
    \/ GpsGetconnPrep(c)
    \/ GpsQueryPrep(c)
    \/ GpsQuerySeries(c)
    \/ GpsFinally(c)

Next ==
    \/ \E c \in Callers : CallGps(c)
    \/ \E c \in Callers : GpsStep(c)
    \/ \E c \in Callers : CallTrigger(c)
    \/ \E c \in Callers : TriggerRequest(c)
    \/ \E c \in Callers, o \in PipelineOps : CallPipeline(c, o)
    \/ \E c \in Callers : PipelineRun(c)
    \/ \E c \in Callers : Return(c)
    \/ WriterIngest
    \/ WriterPreprocess

Spec == Init /\ [][Next]_vars

ReadStep(c) ==
    \/ FslCheck(c)
    \/ ReadPool(c)
    \/ ReadGetconn(c)
    \/ ReadQuery(c)
    \/ ReadFinally(c)

\* one session reading a job registry of any content
InitRegistry ==
    /\ InitPools
    /\ InitCallers({1}, {})
    /\ rawRows = 0 /\ prepRows = 0 /\ seriesN = 0
    /\ registry \in Registries

NextRegistry ==
    \/ \E c \in Callers, limit \in 0..MaxLimit : CallHist(c, limit)
    \/ \E c \in Callers : CallActive(c)
    \/ \E c \in Callers : ReadPool(c)
    \/ \E c \in Callers : ReadGetconn(c)
    \/ \E c \in Callers : ReadQuery(c)
    \/ \E c \in Callers : ReadFinally(c)
    \/ \E c \in Callers : Return(c)

SpecRegistry == InitRegistry /\ [][NextRegistry]_vars

\* one session re-reading an unchanged registry, keeping what it read before
InitRequery ==
    /\ InitPools
    /\ InitCallers({1}, {1})
    /\ rawRows = 0 /\ prepRows = 0 /\ seriesN = 0
    /\ registry \in Registries

SpecRequery == InitRequery /\ [][NextRegistry]_vars

\* one session re-reading the registry of one job: its stage rows, or its
\* timestamps
InitStages ==
    /\ InitPools
    /\ InitCallers({1}, {1})
    /\ rawRows = 0 /\ prepRows = 0 /\ seriesN = 0
    /\ registry \in StageRegistries \cup TimedRegistries

SpecStages == InitStages /\ [][NextRegistry]_vars

\* one session running every operation of the core on a registry of one job,
\* while the writers fill the data stores
InitReaders ==
    /\ InitPools
    /\ InitCallers({1}, {})
    /\ rawRows = 0 /\ prepRows = 0 /\ seriesN = 0
    /\ registry \in TimedRegistries

\* all sessions at once, on stores that hold one series
InitPool ==
    /\ InitPools
    /\ InitCallers(Callers, {})
    /\ rawRows = 1 /\ prepRows = 1 /\ seriesN = 1
    /\ registry = {}

\* the steps of caller c
CallerStep(c) ==
    \/ CallGps(c)
    \/ CallFsl(c)
    \/ CallHist(c, MaxLimit)
    \/ CallActive(c)
    \/ CallPreview(c)
    \/ GpsStep(c)
    \/ ReadStep(c)
    \/ Return(c)

NextPool == \E c \in Callers : CallerStep(c)

\* a step of any operation of the core by caller c
CoreStep(c) ==
    \/ CallerStep(c)
    \/ CallTrigger(c)
    \/ TriggerRequest(c)

NextReaders ==
    \/ \E c \in Callers : CoreStep(c)
    \/ WriterIngest
    \/ WriterPreprocess

SpecReaders == InitReaders /\ [][NextReaders]_vars

SpecPool == InitPool /\ [][NextPool]_vars

\* all sessions at once, on the pooled connections of database.py and on the
\* cached connection of dashboard_app.py
SharedStep(c) ==
    \/ \E o \in DaOps : CallDa(c, o)
    \/ DaGetConnection(c)
    \/ DaExecute(c)
    \/ DaFetch(c)
    \/ CallActive(c)
    \/ ReadPool(c)
    \/ ReadGetconn(c)
    \/ ReadQuery(c)
    \/ ReadFinally(c)
    \/ Return(c)

NextShared == \E c \in Callers : SharedStep(c)

SpecShared == InitPool /\ [][NextShared]_vars

\* threads are scheduled fairly: a caller that can step eventually does
FairSpecPool == SpecPool /\ \A c \in Callers : WF_vars(CallerStep(c))

(* ------------------------------- claims -------------------------------- *)
AtReturn(c, o) == op[c] = o /\ pc[c] = "ret"

\* C1: whenever get_pipeline_status returns after reading its three counts,
\* the status is "ready" iff series > 0, "processing" iff series = 0 and
\* raw > 0, "waiting" iff both are 0; prep plays no part.
C1_StatusFromCounts ==
    \A c \in Callers :
        (AtReturn(c, "gps") /\ loc[c].fail = "none") =>
            LET st == ret[c].val.status
                raw == loc[c].raw_count
                series == loc[c].series_count
            IN  /\ (st = "ready") <=> (series > 0)
                /\ (st = "processing") <=> (series = 0 /\ raw > 0)
                /\ (st = "waiting") <=> (series = 0 /\ raw = 0)
                /\ ret[c].val.raw_count = raw
                /\ ret[c].val.series_count = series

\* a snapshot with raw > 0 and series > 0 (ready wins), read while prep was 0
C1_Witness ==
    \E c \in Callers :
        /\ AtReturn(c, "gps") /\ loc[c].fail = "none"
        /\ loc[c].raw_count > 0 /\ loc[c].series_count > 0 /\ loc[c].prep_count = 0
        /\ ret[c].val.status = "ready"

\* C2: a failure at any step of get_pipeline_status (a pool that is None, a
\* getconn, any of the three queries) ends the call with a returned value of
\* status "error" that has a message and no raw_count/prep_count; nothing is
\* raised to the caller.
C2_FailureGivesError ==
    \A c \in Callers :
        /\ op[c] = "gps" => ret[c].kind # "raised"
        /\ (AtReturn(c, "gps") /\ loc[c].fail # "none") =>
              /\ ret[c].kind = "value"
              /\ ret[c].val.status = "error"
              /\ Len(ret[c].val.message) > 0
              /\ "raw_count" \notin DOMAIN ret[c].val
              /\ "prep_count" \notin DOMAIN ret[c].val

\* the last query failed after two counts had been read, one of them positive
C2_Witness ==
    \E c \in Callers :
        /\ AtReturn(c, "gps") /\ loc[c].fail = "query_series"
        /\ loc[c].raw_count > 0
        /\ ret[c].val.status = "error"

\* the HTTP request ended in a transport failure, a timeout or a status code
\* outside 2xx
RequestFailed(out) ==
    \/ out.kind \in {"ConnectionError", "Timeout"}
    \/ out.kind = "response" /\ out.status_code \notin 200..299

C4_SuccessCarriesJobId ==
    \A c \in Callers :
        (AtReturn(c, "trigger") /\ ret[c].kind = "value" /\ ret[c].val.success) =>
            ret[c].val.job_id # "None"

\* C5: one call of trigger_pipeline sends at most one request, whatever the
\* outcome of that request.
C5_AtMostOneRequest ==
    \A c \in Callers :
        /\ reqs[c] <= 1
        /\ AtReturn(c, "trigger") => reqs[c] = 1

\* a call that ended in a failure after its one request
C5_Witness ==
    \E c \in Callers :
        /\ AtReturn(c, "trigger") /\ loc[c].fail # "none"
        /\ ret[c].val.success = FALSE /\ reqs[c] = 1

\* the connections caller c holds of the pool of store n
Holds(c, n) ==
    \/ n = "ingestion" /\ loc[c].conn_raw
    \/ n = "preprocessing" /\ loc[c].conn_prep
    \/ InRead(c) /\ n = StoreOf(op[c]) /\ loc[c].conn

\* C6: every connection taken from a pool is put back to that pool before
\* the operation ends, on every exit path: a caller that has returned holds
\* nothing, each pool's checked-out count is the number of connections held
\* by running calls, and it is zero when no call is running.
C6_ConnectionsReturned ==
    /\ \A c \in Callers :
          pc[c] \in {"idle", "ret"} => \A n \in db_url_map : ~Holds(c, n)
    /\ \A n \in db_url_map :
          used[n] = Cardinality({c \in Callers : Holds(c, n)})
    /\ (\A c \in Callers : pc[c] \in {"idle", "ret"}) =>
          \A n \in db_url_map : used[n] = 0

\* no call is running, and one has just ended on a failed preprocessing query
\* that it ran while holding a connection of both pools
C6_Witness ==
    /\ \A c \in Callers : pc[c] \in {"idle", "ret"}
    /\ \E c \in Callers : AtReturn(c, "gps") /\ loc[c].fail = "query_prep"
    /\ \E c \in Callers : AtReturn(c, "hist") /\ loc[c].fail = "query"
    /\ \A n \in db_url_map : used[n] = 0

\* the positions of a call, in the order a call passes through them
PcOrder ==
    <<"gps_status_pool", "gps_ingestion_pool", "gps_preprocessing_pool",
      "gps_getconn_raw", "gps_query_raw", "gps_getconn_prep", "gps_query_prep",
      "gps_query_series", "gps_finally", "fsl_check",
      "r_pool", "r_getconn", "r_query", "r_finally", "tp_request", "ret">>

Rank(p) == CHOOSE i \in DOMAIN PcOrder : PcOrder[i] = p

\* a step of caller c starts a call, moves the call strictly forward, or
\* returns from "ret"
Advances(c) ==
    /\ pc'[c] # pc[c]
    /\ \/ pc[c] = "idle"
       \/ pc[c] = "ret" /\ pc'[c] = "idle"
       \/ pc[c] # "ret" /\ pc'[c] # "idle" /\ Rank(pc'[c]) > Rank(pc[c])

\* C7: with NCallers concurrent callers and pools of MaxConn < NCallers
\* connections, no pool ever has more than MaxConn connections checked out,
\* a caller inside a call can always take its next step whatever the others
\* hold (nothing waits, so nothing deadlocks), and every step moves its call
\* strictly forward through finitely many positions: every call returns.
C7_BoundedAndLive ==
    /\ [](\A n \in db_url_map : used[n] <= MaxConn)
    /\ [](\A c \in Callers : pc[c] # "idle" => ENABLED CallerStep(c))
    /\ [][\A c \in Callers : CallerStep(c) => Advances(c)]_vars

\* the same as a liveness property of the fair specification: a call that has
\* started eventually returns
C7_EventuallyReturns ==
    \A c \in Callers : [](pc[c] # "idle" => <>(pc[c] = "idle"))

\* a caller holding its ingestion connection has just been refused a
\* preprocessing connection by a pool with MaxConn connections checked out
C7_Witness ==
    \E c \in Callers :
        /\ InGps(c) /\ pc[c] = "gps_finally" /\ loc[c].fail = "getconn_prep"
        /\ loc[c].conn_raw
        /\ used["preprocessing"] = MaxConn /\ MaxConn < NCallers

\* C8: for each store name at most one pool is ever constructed, and every
\* call of get_connection_pool with that name has returned the same value.
C8_OnePoolPerStore ==
    \A n \in db_url_map :
        /\ created[n] <= 1
        /\ Cardinality(returned[n]) <= 1
        /\ created[n] = 1 => returned[n] = {Pool(1)} /\ cache[n] = Pool(1)

\* two callers have both obtained the pool of the status store
C8_Witness ==
    /\ created["status"] = 1
    /\ \E c1, c2 \in Callers :
          /\ c1 # c2
          /\ op[c1] = "hist" /\ pc[c1] = "r_getconn"
          /\ op[c2] = "active" /\ pc[c2] = "r_getconn"

\* C9: when the pool of the status store is None, or the getconn or the query
\* fails, get_job_history and get_active_jobs return the empty result and
\* raise nothing.
C9_RegistryFailureEmpty ==
    \A c \in Callers :
        op[c] \in {"hist", "active"} =>
            /\ ret[c].kind # "raised"
            /\ (pc[c] = "ret" /\ loc[c].fail # "none") => ret[c] = Value(Empty)

\* a history query with a positive limit failed on a registry that has rows
C9_Witness ==
    \E c \in Callers :
        /\ AtReturn(c, "hist") /\ loc[c].fail = "query"
        /\ registry # {} /\ loc[c].limit > 0
        /\ ret[c] = Value(Empty)

\* the rows of a result
RangeOf(s) == {RowOf(s[i]) : i \in DOMAIN s}

C11_HistoryIdempotent ==
    \A c \in Callers :
        (/\ AtReturn(c, "hist") /\ loc[c].fail = "none"
         /\ prev[c].kind = "seen" /\ prev[c].op = "hist"
         /\ prev[c].limit = loc[c].limit) =>
            ret[c].val = prev[c].val

\* C12: a successful get_active_jobs returns exactly the rows whose status is
\* 'running', each once, ordered by created_at descending, and the rows of
\* equal created_at come ordered by job_id (one direction throughout).
C12_ActiveOrderedWithTieBreak ==
    \A c \in Callers :
        (AtReturn(c, "active") /\ loc[c].fail = "none") =>
            LET r == ret[c].val
                running == {x \in registry : x.status = "running"}
                Ties == {p \in (DOMAIN r) \X (DOMAIN r) :
                            p[1] < p[2] /\ r[p[1]].created_at = r[p[2]].created_at}
            IN  /\ RangeOf(r) = running
                /\ Len(r) = Cardinality(running)
                /\ \A i, j \in DOMAIN r : i < j => r[i].created_at >= r[j].created_at
                /\ \/ \A p \in Ties : r[p[1]].job_id < r[p[2]].job_id
                   \/ \A p \in Ties : r[p[1]].job_id > r[p[2]].job_id

\* the statuses of the stages recorded for job j
StageStatusesOf(j) ==
    {x.status : x \in {y \in registry : y.job_id = j /\ y.stage # NULL}}

\* C13: every entry a successful get_job_history returns for a job with
\* recorded stages carries the status derived from those stages: 'partial' iff
\* at least one is failed and at least one completed or running, 'failed' iff
\* all are failed, 'completed' iff all are completed, 'running' iff any is
\* running.
C13_StatusDerivedFromStages ==
    \A c \in Callers :
        (AtReturn(c, "hist") /\ loc[c].fail = "none") =>
            \A i \in DOMAIN ret[c].val :
                LET e == ret[c].val[i]
                    S == StageStatusesOf(e.job_id)
                IN  S # {} =>
                        /\ (e.status = "partial") <=>
                               ("failed" \in S /\ S \cap {"completed", "running"} # {})
                        /\ (e.status = "failed") <=> (S = {"failed"})
                        /\ (e.status = "completed") <=> (S = {"completed"})
                        /\ (e.status = "running") <=> ("running" \in S)

\* C14: every entry a successful get_job_history returns for a job with no
\* recorded stage carries the status 'running'.
C14_NoStagesIsRunning ==
    \A c \in Callers :
        (AtReturn(c, "hist") /\ loc[c].fail = "none") =>
            \A i \in DOMAIN ret[c].val :
                StageStatusesOf(ret[c].val[i].job_id) = {} =>
                    ret[c].val[i].status = "running"

\* the jobs among the entries of a result, and those reported as running
JobsOf(rows) == {rows[i].job_id : i \in DOMAIN rows}
RunningJobsOf(rows) == {rows[i].job_id : i \in {k \in DOMAIN rows : rows[k].status = "running"}}

\* C15: on the unchanged registry, the jobs a successful get_active_jobs
\* returns are the jobs a successful get_job_history, with a limit that covers
\* the registry, reports with status 'running', whichever is read first.
C15_ActiveIffHistoryRunning ==
    \A c \in Callers :
        /\ (/\ AtReturn(c, "active") /\ loc[c].fail = "none"
            /\ prev[c].kind = "seen" /\ prev[c].op = "hist"
            /\ prev[c].limit >= Cardinality(registry)) =>
                JobsOf(ret[c].val) = RunningJobsOf(prev[c].val)
        /\ (/\ AtReturn(c, "hist") /\ loc[c].fail = "none"
            /\ loc[c].limit >= Cardinality(registry)
            /\ prev[c].kind = "seen" /\ prev[c].op = "active") =>
                JobsOf(prev[c].val) = RunningJobsOf(ret[c].val)

\* the job has a running and a failed stage; the history read it in full and
\* the active-jobs query that follows returns the job
C15_Witness ==
    \E c \in Callers :
        /\ AtReturn(c, "active") /\ loc[c].fail = "none"
        /\ prev[c].kind = "seen" /\ prev[c].op = "hist"
        /\ prev[c].limit >= Cardinality(registry)
        /\ Len(prev[c].val) = 2 /\ Len(ret[c].val) = 1
        /\ \E x \in registry : x.status = "failed"

C17_CoreChangesNoStore ==
    [][(\E c \in Callers : CoreStep(c)) => UNCHANGED stores]_vars

\* a history query has returned the job of a registry whose data stores hold
\* rows
C17_Witness ==
    \E c \in Callers :
        /\ AtReturn(c, "hist") /\ loc[c].fail = "none"
        /\ Len(ret[c].val) = 1 /\ registry # {}
        /\ rawRows > 0 /\ prepRows > 0

\* C18: the request trigger_pipeline sends carries the series id and the
\* options its caller supplied, so calls that differ in the preprocessing
\* method send requests that differ in it.
C18_RequestCarriesOptions ==
    \A c \in Callers :
        AtReturn(c, "trigger") =>
            LET q == loc[c].request
            IN  /\ q.series_id = loc[c].series_id
                /\ \E k \in DOMAIN q.params : q.params[k] = loc[c].config_data.method

\* the place of a stage in the fixed sequence
StageIndex(sg) == CHOOSE i \in DOMAIN Stages : Stages[i] = sg

\* C19: the stage data a successful get_job_history returns for a job holds
\* every recorded stage of the job exactly once, in the fixed stage sequence
\* (ingestion, preprocessing, forecasting, anomaly), whatever the timestamps.
C19_StagesOnceInSequence ==
    \A c \in Callers :
        (AtReturn(c, "hist") /\ loc[c].fail = "none") =>
            LET r == ret[c].val
                Of(j) == {i \in DOMAIN r : r[i].job_id = j /\ r[i].stage # NULL}
                Recorded(j) == {x.stage : x \in {y \in registry :
                                                    y.job_id = j /\ y.stage # NULL}}
            IN  \A j \in JobsOf(r) :
                    /\ {r[i].stage : i \in Of(j)} = Recorded(j)
                    /\ \A i, k \in Of(j) :
                           i < k => StageIndex(r[i].stage) < StageIndex(r[k].stage)

\* the steps of get_pipeline_status on its stores, in the order of the code
GpsSites == <<"getconn_raw", "query_raw", "getconn_prep", "query_prep", "query_series">>

\* caller c is in get_pipeline_status or holds what it has just returned
InGpsCall(c) == op[c] = "gps" \/ (op[c] = "fsl" /\ pc[c] = "fsl_check")

\* C20: get_pipeline_status attempts its steps in store order; when a required
\* pool is unavailable it acquires no connection from any pool, and when the
\* ingestion getconn or the raw-count query fails it acquires no connection
\* from the preprocessing pool and issues no preprocessing query.
C20_ShortCircuitInStoreOrder ==
    \A c \in Callers :
        InGpsCall(c) =>
            LET t == loc[c].trace
                attempted == {t[i] : i \in DOMAIN t}
            IN  /\ Len(t) <= Len(GpsSites) /\ t = SubSeq(GpsSites, 1, Len(t))
                /\ loc[c].fail = "pool" =>
                       t = <<>> /\ ~loc[c].conn_raw /\ ~loc[c].conn_prep
                /\ loc[c].fail \in {"getconn_raw", "query_raw"} =>
                       /\ attempted \cap {"getconn_prep", "query_prep", "query_series"} = {}
                       /\ ~loc[c].conn_prep
                       /\ t[Len(t)] = loc[c].fail

\* the raw-count query failed: the call has returned an error after the
\* ingestion getconn and that query, and nothing else
C20_Witness ==
    \E c \in Callers :
        /\ AtReturn(c, "gps") /\ loc[c].fail = "query_raw"
        /\ loc[c].trace = <<"getconn_raw", "query_raw">>
        /\ ret[c].val.status = "error"

\* C21: whenever the ingestion and the preprocessing pool are available and
\* no getconn or count query on them fails, get_pipeline_status returns a
\* non-error status, whatever the state of the status, forecasting and
\* anomaly stores.
C21_DependsOnDataStoresOnly ==
    \A c \in Callers :
        (/\ AtReturn(c, "gps")
         /\ Truthy(cache["ingestion"]) /\ Truthy(cache["preprocessing"])
         /\ loc[c].fail \notin {GpsSites[i] : i \in DOMAIN GpsSites}) =>
            ret[c].kind = "value" /\ ret[c].val.status # "error"

\* C22: in a snapshot get_pipeline_status returns without error, the message
\* of status 'processing' holds the raw_count of the snapshot and the message
\* of status 'ready' holds its series_count.
C22_MessageHoldsDecidingCount ==
    \A c \in Callers :
        (AtReturn(c, "gps") /\ loc[c].fail = "none") =>
            LET s == ret[c].val
            IN  /\ s.status = "processing" =>
                       s.message[1] = s.raw_count /\ s.raw_count = loc[c].raw_count
                /\ s.status = "ready" =>
                       s.message[1] = s.series_count /\ s.series_count = loc[c].series_count

\* a 'ready' snapshot over an empty raw store, and so a message whose number
\* is the series count and not the raw count
C22_Witness ==
    \E c \in Callers :
        /\ AtReturn(c, "gps") /\ loc[c].fail = "none"
        /\ ret[c].val.status = "ready"
        /\ ret[c].val.raw_count = 0 /\ ret[c].val.series_count > 0
        /\ ret[c].val.message[1] = ret[c].val.series_count

\* caller c is running a query on connection object x
QueriesOn(c, x) ==
    \/ op[c] \in DaOps /\ pc[c] = "da_running" /\ loc[c].da_conn = x

\* C23: no two callers run queries on the same connection at the same time:
\* each pool has as many connections checked out as callers hold, one each,
\* and at most one caller at a time queries on the cached connection of
\* dashboard_app.py.
C23_OneCallerPerConnection ==
    /\ \A n \in db_url_map :
          used[n] = Cardinality({c \in Callers : Holds(c, n)}) /\ used[n] <= MaxConn
    /\ \A c1, c2 \in Callers :
          (c1 # c2 /\ QueriesOn(c1, dbconn)) => ~QueriesOn(c2, dbconn)

\* C24: every snapshot get_pipeline_status returns without error is
\* consistent for the preprocessing store, also while a writer inserts rows:
\* series_count > 0 implies prep_count > 0.
C24_SnapshotConsistent ==
    \A c \in Callers :
        (AtReturn(c, "gps") /\ loc[c].fail = "none") =>
            (ret[c].val.series_count > 0 => ret[c].val.prep_count > 0)

\* caller c calls get_connection_pool(n) in a step that a reachable store n
\* allows (the pool constructor, if it runs, succeeds)
PoolCallWhileUp(c, n) ==
    /\ get_connection_pool(n, TRUE)
    /\ \/ n = "status" /\ GpsStatusPool(c)
       \/ n = "ingestion" /\ GpsIngestionPool(c)
       \/ n = "preprocessing" /\ GpsPreprocessingPool(c)
       \/ InRead(c) /\ n = StoreOf(op[c]) /\ ReadPool(c)

\* C25: a failed pool initialisation is not permanent: a call of
\* get_connection_pool(n) made by get_pipeline_status or get_job_history
\* while store n is reachable obtains a pool, also after an earlier call
\* failed while the store was down.
C25_FailedInitNotPermanent ==
    [][\A c \in Callers, n \in db_url_map :
            PoolCallWhileUp(c, n) => Truthy(cache'[n])]_vars

\* C26: fetch_series_list never raises; it returns the empty list when
\* get_pipeline_status reports an error or series_count 0, when the
\* preprocessing pool is None, and when its getconn or its query fails; and
\* it reaches its own pool, getconn and query only after get_pipeline_status
\* has run its finally block and holds no connection.
C26_SeriesListNeverRaises ==
    /\ [](\A c \in Callers :
             op[c] = "fsl" =>
                 /\ ret[c].kind # "raised"
                 /\ (pc[c] = "ret" /\ (loc[c].fail # "none" \/ loc[c].series_count = 0)) =>
                        ret[c] = Value(Empty)
                 /\ pc[c] \in {"r_pool", "r_getconn", "r_query", "r_finally"} =>
                        /\ ~loc[c].conn_raw /\ ~loc[c].conn_prep
                        /\ loc[c].trace = GpsSites)
    /\ [][\A c \in Callers :
             (/\ FslCheck(c)
              /\ (ret[c].val.status = "error" \/ SeriesCountOf(ret[c].val) = 0)) =>
                 (ret'[c] = Value(Empty) /\ pc'[c] = "ret")]_vars

\* the list query failed after get_pipeline_status had counted a series
C26_Witness ==
    \E c \in Callers :
        /\ AtReturn(c, "fsl") /\ loc[c].fail = "query"
        /\ loc[c].series_count > 0 /\ seriesN > 0
        /\ ret[c] = Value(Empty)

\* C27: trigger_data_ingestion and trigger_preprocessing send at most one
\* request per call, raise nothing, return True only when the service
\* answered 200 or 202, and return False in every other case.
C27_PipelineTriggersNeverRaise ==
    \A c \in Callers :
        op[c] \in PipelineOps =>
            /\ reqs[c] <= 1
            /\ ret[c].kind # "raised"
            /\ pc[c] = "ret" =>
                   /\ ret[c].kind = "value"
                   /\ ret[c].val <=> (/\ loc[c].http.kind = "response"
                                      /\ loc[c].http.status_code \in {200, 202})

====
